---------------------------- MODULE Spec2Model ----------------------------
(***************************************************************************)
(* A model of BlackFlagActor (src/system/documents/actor.mjs): the derived *)
(* data pipeline of a player character.                                    *)
(*                                                                         *)
(* Conventions of the translation                                          *)
(*  - a JavaScript value that may be absent is either the string Undefined *)
(*    (string-valued fields) or a sequence of length 0 or 1 (<<>> absent,  *)
(*    <<x>> present);                                                      *)
(*  - an Array, and a Set or Map whose iteration order the code relies on, *)
(*    is a sequence in insertion order;                                    *)
(*  - a label of the Rule Catalog is represented by its rank in the locale *)
(*    collation order, so that a.label.localeCompare(b.label) is the sign  *)
(*    of the difference of the ranks.                                      *)
(***************************************************************************)
EXTENDS Integers, Sequences, FiniteSets, TLC

VARIABLES
    cItems,      \* catalog build: game.collections.get("Item"), the local documents
    cPacks,      \* catalog build: game.packs
    cAbsent,     \* catalog build: the package entries whose getDocument finds nothing
    cLoad,       \* catalog build: the locals of a getForeignDocuments call suspended
                 \* at line 37, [subtype, docs, pack, ids] with ids[1] the id awaited
    cResult,     \* catalog build: the subtype asked for and the collection returned
    cChanges,    \* catalog build: number of changes of the world so far
    aStored,     \* advantage aggregation: the character as the pass found it
    aSystem,     \* advantage aggregation: this.system, the character's derived view
    aPhase,      \* advantage aggregation: "stored", "derived" (the pass ran) or "threw"
    bSystem,     \* builder evaluation: CONFIG.SYSTEM, the Rule Catalog in force
    bTrait,      \* builder evaluation: the TraitChoice record of this.system.traitChoices
    bPrev,       \* builder evaluation: the TraitChoice as the last step of a pass found it
    bPhase,      \* builder evaluation: the last step, "fresh" (none), "edited",
                 \* "interrupted" (an edit while a pass is suspended), "reconciled"
                 \* (lines 141-153 ran), "again" (the same, no edit since the last
                 \* evaluation), "evaluated" (line 66 ran) or "repeated" (line 66
                 \* ran, no edit since the evaluation before)
    bEdits,      \* builder evaluation: number of edits made so far
    bPending,    \* builder evaluation: number of passes suspended at line 65
    dProvider,   \* derivation: the Document Provider, [items, packs, absent]
    dCache,      \* derivation: CONFIG.SYSTEM.*_DOCUMENTS, a collection per subtype
    dStored,     \* derivation: per character, this._source.system
    dSystem,     \* derivation: per character, this.system, the derived view
    dPass,       \* derivation: the passes in the order they started, each with
                 \* its character, its position and its locals
    dPopulated,  \* derivation: the subtypes a load has assigned a collection to
    dLoadDone,   \* derivation: some loadForeignDocuments has run to its end
    dPasses,     \* derivation: number of passes started so far
    dRefChanges, \* derivation: number of reference changes so far
    dRejected,   \* derivation: a getDocument call was rejected
    mRaw,        \* ability modifiers: the stored ability scores
    mAbilities,  \* ability modifiers: this.system.abilities
    mPhase       \* ability modifiers: "raw" or "prepared" (the function ran)

cvars == <<cItems, cPacks, cAbsent, cLoad, cResult, cChanges>>

avars == <<aStored, aSystem, aPhase>>

bvars == <<bSystem, bTrait, bPrev, bPhase, bEdits, bPending>>

dvars == <<dProvider, dCache, dStored, dSystem, dPass, dPopulated, dLoadDone, dPasses,
          dRefChanges, dRejected>>

mvars == <<mRaw, mAbilities, mPhase>>

\* what the actions of one specification leave alone
exceptAdvantages == <<bvars, cvars, dvars, mvars>>

exceptBuilder == <<avars, cvars, dvars, mvars>>

exceptCatalog == <<avars, bvars, dvars, mvars>>

exceptDerivation == <<avars, bvars, cvars, mvars>>

exceptAbilities == <<avars, bvars, cvars, dvars>>

vars == <<avars, bvars, cvars, dvars, mvars>>

-----------------------------------------------------------------------------
(* Bounds of the model *)

\* most edits (selections, configuration changes) in one behaviour of SpecBuilder
MaxEdits == 2

\* most passes of the character suspended at line 65 together in SpecBuilder
MaxPending == 2

\* most active traits of the character in SpecAdvantages
MaxTraits == 2

\* most documents of the local collection in SpecCatalog
MaxLocal == 2

\* most changes of the world (an Item created, a package added) in one
\* behaviour of SpecCatalog
MaxWorldChanges == 2

-----------------------------------------------------------------------------
(* JavaScript helpers *)

Undefined == "undefined"

\* x || y, x ?? y on a string that may be absent
Falsy(s) == s \in {Undefined, ""}

\* opt ?? d on an optional value
OrElse(opt, d) == IF opt = <<>> THEN d ELSE opt[1]

Range(s) == {s[i] : i \in DOMAIN s}

\* the sequences without repetition of at most n elements of S
SeqsNoDup(S, n) ==
    {s \in UNION {[1..k -> S] : k \in 0..n} :
        \A i, j \in DOMAIN s : i # j => s[i] # s[j]}

\* Array.prototype.find / findIndex on a list of records with a key field: 0 if none
RECURSIVE FindKeyFrom(_, _, _)
FindKeyFrom(list, key, i) ==
    IF i > Len(list) THEN 0
    ELSE IF list[i].key = key THEN i
    ELSE FindKeyFrom(list, key, i + 1)

FindKey(list, key) == FindKeyFrom(list, key, 1)

\* String.prototype.localeCompare: the strings of the model in collation order
Collation ==
    [Acolyte |-> 1, Arcana |-> 2, Common |-> 3, Dwarf |-> 4, Elf |-> 5,
     Elvish |-> 6, Fire |-> 7, Poison |-> 8, Sage |-> 9, Stealth |-> 10,
     undefined |-> 11, Wizard |-> 12]

LocaleCompare(a, b) == Collation[a] - Collation[b]

\* Array.prototype.sort under a comparator that orders by rank, given the ranks
\* of the elements: the permutation it applies (stable: equal ranks keep their order)
StableOrder(ranks) ==
    LET Before(j, i) == ranks[j] < ranks[i] \/ (ranks[j] = ranks[i] /\ j < i)
        Pos(i)       == 1 + Cardinality({j \in DOMAIN ranks : Before(j, i)})
    IN  [k \in DOMAIN ranks |-> CHOOSE i \in DOMAIN ranks : Pos(i) = k]

-----------------------------------------------------------------------------
(* The Rule Catalog, CONFIG.SYSTEM: category name -> entries in key order *)

CatalogFull ==
    [PROFICIENCY_TYPES |-> << [key |-> "stealth", label |-> "Stealth"],
                              [key |-> "arcana",  label |-> "Arcana"] >>,
     DAMAGE_TYPES      |-> << [key |-> "fire",    label |-> "Fire"] >>,
     LANGUAGE_TYPES    |-> << [key |-> "elvish",  label |-> "Elvish"],
                              [key |-> "common",  label |-> "Common"] >>,
     SAVE_TYPES        |-> << [key |-> "poison",  label |-> "Poison"] >>,
     TOOL_TYPES        |-> << [key |-> "arcana",  label |-> "Arcana"] >>]

\* the catalog after an update that dropped the TOOL_TYPES category and a language
CatalogUpdated ==
    [PROFICIENCY_TYPES |-> CatalogFull.PROFICIENCY_TYPES,
     DAMAGE_TYPES      |-> CatalogFull.DAMAGE_TYPES,
     LANGUAGE_TYPES    |-> << [key |-> "common",  label |-> "Common"] >>,
     SAVE_TYPES        |-> CatalogFull.SAVE_TYPES]

Catalogs == {CatalogFull, CatalogUpdated}

\* the property names every plain object inherits from Object.prototype; the
\* value under each is truthy (a function, or the prototype itself under
\* "__proto__"), has no own enumerable key and no label
ObjectPrototypeNames ==
    {"constructor", "hasOwnProperty", "isPrototypeOf", "propertyIsEnumerable",
     "toLocaleString", "toString", "valueOf", "__proto__",
     "__defineGetter__", "__defineSetter__", "__lookupGetter__", "__lookupSetter__"}

\* the properties CONFIG.SYSTEM answers besides its categories: the document
\* collections of lines 51-55 (empty Collections before the load), the function
\* log that lines 276 and 312 call, and the names inherited from
\* Object.prototype; each value is truthy and has no own enumerable key
ConfigOtherNames ==
    {"LINEAGE_DOCUMENTS", "HERITAGE_DOCUMENTS", "BACKGROUND_DOCUMENTS",
     "TALENT_DOCUMENTS", "CLASS_DOCUMENTS", "log"} \cup ObjectPrototypeNames

\* line 196: CONFIG.SYSTEM[name] is truthy
HasCategory(S, name) == name \in DOMAIN S \/ name \in ConfigOtherNames

\* Object.keys(category)
Keys(category) == [i \in DOMAIN category |-> category[i].key]

\* line 197: Object.keys(CONFIG.SYSTEM[name]) of a truthy property
CategoryKeys(S, name) == IF name \in DOMAIN S THEN Keys(S[name]) ELSE <<>>

-----------------------------------------------------------------------------
(* getForeignDocuments, actor.mjs lines 29-49 *)

(* A document is [id, name, type, origin, color, traits]: type is its subtype,  *)
(* origin names the collection that holds the object ("world" or a package), so *)
(* that two records are equal exactly when they are the same JavaScript object. *)
(* A package is [name, type, documents]; its index lists its documents.         *)

\* line 30: game.collections.get(type).filter(d => d.type === subtype)
LocalDocuments(items, subtype) == SelectSeq(items, LAMBDA d : d.type = subtype)

\* line 35: pack.index.filter(d => d.type === subtype).map(d => d._id)
PackIds(pack, subtype) ==
    LET entries == SelectSeq(pack.documents, LAMBDA d : d.type = subtype)
    IN  [i \in DOMAIN entries |-> entries[i].id]

\* lines 33-35: the loop over game.packs from position p on, up to the next
\* package of the type whose index has an entry of the subtype: its position and
\* the ids of line 35, or <<>> when the loop ends; game.packs is iterated live,
\* so `packs` is the value it has when the loop gets there
RECURSIVE NextPack(_, _, _, _)
NextPack(packs, type, subtype, p) ==
    IF p > Len(packs) THEN <<>>
    ELSE IF packs[p].type # type \/ Len(PackIds(packs[p], subtype)) = 0
    THEN NextPack(packs, type, subtype, p + 1)
    ELSE << [pack |-> p, ids |-> PackIds(packs[p], subtype)] >>

\* lines 33-36: the getDocument calls of one getForeignDocuments over packages
\* that do not change while it runs, in order, each [pack, id] with pack the
\* position of the package in game.packs
RECURSIVE FetchQueueFrom(_, _, _, _)
FetchQueueFrom(packs, type, subtype, p) ==
    IF p > Len(packs) THEN <<>>
    ELSE IF packs[p].type # type
    THEN FetchQueueFrom(packs, type, subtype, p + 1)
    ELSE LET ids == PackIds(packs[p], subtype)
         IN  [i \in DOMAIN ids |-> [pack |-> p, id |-> ids[i]]]
                \o FetchQueueFrom(packs, type, subtype, p + 1)

FetchQueue(packs, type, subtype) == FetchQueueFrom(packs, type, subtype, 1)

\* line 37: the document pack.getDocument(id) resolves to when it finds one
PackDocument(packs, fetch) ==
    LET found == SelectSeq(packs[fetch.pack].documents, LAMBDA d : d.id = fetch.id)
    IN  found[1]

\* line 43: Array.from(new Set(docs)), the first occurrence of every object
RECURSIVE DedupeFrom(_, _)
DedupeFrom(docs, i) ==
    IF i > Len(docs) THEN <<>>
    ELSE IF \E j \in 1..(i - 1) : docs[j] = docs[i]
    THEN DedupeFrom(docs, i + 1)
    ELSE <<docs[i]>> \o DedupeFrom(docs, i + 1)

Dedupe(docs) == DedupeFrom(docs, 1)

\* line 43: .sort((a, b) => a.name.localeCompare(b.name))
SortByName(docs) ==
    LET order == StableOrder([i \in DOMAIN docs |-> Collation[docs[i].name]])
    IN  [k \in DOMAIN docs |-> docs[order[k]]]

\* line 46: collection.set(d.id, d); a Collection is a Map, which keeps the
\* position of a key that is set again and replaces its value
CollectionSet(collection, d) ==
    IF \E i \in DOMAIN collection : collection[i].id = d.id
    THEN [i \in DOMAIN collection |->
            IF collection[i].id = d.id THEN d ELSE collection[i]]
    ELSE Append(collection, d)

\* lines 42-48: the collection built from the documents found
BuildCollection(docs) ==
    LET sorted == SortByName(Dedupe(docs))
        RECURSIVE SetFrom(_, _)
        SetFrom(collection, i) ==
            IF i > Len(sorted) THEN collection
            ELSE SetFrom(CollectionSet(collection, sorted[i]), i + 1)
    IN  SetFrom(<<>>, 1)

\* lines 33-40: the documents the packages add, `absent` the fetches that find
\* nothing (getDocument resolves to null or undefined)
FetchedDocuments(packs, type, subtype, absent) ==
    LET found == SelectSeq(FetchQueue(packs, type, subtype), LAMBDA f : f \notin absent)
    IN  [i \in DOMAIN found |-> PackDocument(packs, found[i])]

\* Collection.prototype.get: the document under an id, <<>> for undefined
CollectionGet(collection, id) ==
    LET found == SelectSeq(collection, LAMBDA d : d.id = id)
    IN  IF Len(found) = 0 THEN <<>> ELSE <<found[1]>>

-----------------------------------------------------------------------------
(* prepareAbilityScoreMods, actor.mjs lines 72-93 *)

\* a mutation of the modifier: the quotient truncated toward zero
AbilityModTruncated(abl) ==
    IF abl >= 10 THEN (abl - 10) \div 2 ELSE 0 - ((10 - abl) \div 2)

\* line 90: Math.floor((abl - 10) / 2)
AbilityMod(abl) == (abl - 10) \div 2

\* lines 87-92: every ability score becomes {value, mod}
PrepareAbilityScoreMods(abilities) ==
    [a \in DOMAIN abilities |-> [value |-> abilities[a], mod |-> AbilityMod(abilities[a])]]

-----------------------------------------------------------------------------
(* prepareForeignDocumentData, actor.mjs lines 102-153 *)

\* lines 145-148: foundry.utils.mergeObject(foundry.utils.duplicate(trait),
\* {choices: [], choicesFulfilled: false})
NewTraitChoice(trait) ==
    [choices |-> <<>>, choicesFulfilled |-> FALSE] @@ trait

\* the five cached collections in the order loadForeignDocuments fills them
\* (lines 51-55)
Subtypes == <<"lineage", "heritage", "background", "talent", "class">>

\* lines 115-118: a copy of the document's trait stamped with its provenance
TraitOf(doc, trait) ==
    [source |-> doc.name, sourceId |-> doc.id, color |-> doc.color] @@ trait

\* lines 113-121 (and 122-130, 131-139): the traits one resolved document adds
TraitsOf(resolved) ==
    IF resolved = <<>> THEN <<>>
    ELSE [i \in DOMAIN resolved[1].traits |-> TraitOf(resolved[1], resolved[1].traits[i])]

\* a mutation of the reconciliation: the TraitChoices are made anew from the traits
RECURSIVE RecreateTraitChoices(_, _, _)
RecreateTraitChoices(traitChoices, traits, i) ==
    IF i > Len(traits) THEN <<>>
    ELSE IF Falsy(traits[i].id)
    THEN RecreateTraitChoices(traitChoices, traits, i + 1)
    ELSE <<NewTraitChoice(traits[i])>> \o RecreateTraitChoices(traitChoices, traits, i + 1)

\* a mutation of the reconciliation: a trait is looked up among the TraitChoices
\* the pass started with, not among those it has added
AddTraitChoicesUnseen(traitChoices, traits, i) ==
    LET missing == SelectSeq(traits, LAMBDA t :
                       /\ ~Falsy(t.id)
                       /\ ~\E k \in DOMAIN traitChoices : traitChoices[k].id = t.id)
    IN  traitChoices \o [k \in DOMAIN missing |-> NewTraitChoice(missing[k])]

\* lines 142-150: a TraitChoice is added for every trait with an id that has none
RECURSIVE AddTraitChoices(_, _, _)
AddTraitChoices(traitChoices, traits, i) ==
    IF i > Len(traits) THEN traitChoices
    ELSE IF Falsy(traits[i].id)
    THEN AddTraitChoices(traitChoices, traits, i + 1)
    ELSE IF \E k \in DOMAIN traitChoices : traitChoices[k].id = traits[i].id
    THEN AddTraitChoices(traitChoices, traits, i + 1)
    ELSE AddTraitChoices(Append(traitChoices, NewTraitChoice(traits[i])), traits, i + 1)

\* a mutation of the pruning: nothing is filtered out
PruneNothing(traitChoices, traits) == traitChoices

\* line 153: the TraitChoices whose id is the id of a current trait
PruneTraitChoices(traitChoices, traits) ==
    SelectSeq(traitChoices, LAMBDA t : \E k \in DOMAIN traits : traits[k].id = t.id)

\* lines 102-153: the derived view after the references are resolved against
\* the cached collections and the traits reconciled
ResolveReferences(cache, source, system) ==
    LET background == CollectionGet(cache.background, source.background)
        heritage   == CollectionGet(cache.heritage, source.heritage)
        lineage    == CollectionGet(cache.lineage, source.lineage)
        class      == CollectionGet(cache.class, source.class)
        traits     == TraitsOf(background) \o TraitsOf(heritage) \o TraitsOf(lineage)
        added      == AddTraitChoices(system.traitChoices, traits, 1)
    IN  [system EXCEPT !.backgroundId = source.background,
                       !.background   = background,
                       !.heritageId   = source.heritage,
                       !.heritage     = heritage,
                       !.lineageId    = source.lineage,
                       !.lineage      = lineage,
                       !.classId      = source.class,
                       !.class        = class,
                       !.traits       = traits,
                       !.traitChoices = PruneTraitChoices(added, traits)]

-----------------------------------------------------------------------------
(* prepareCharacterBuilderData, actor.mjs lines 172-237 *)

\* lines 190-198: the candidate values of an option; <<>> when the option is
\* skipped (`continue`) because CONFIG.SYSTEM[valuesType] is falsy
OptionValues(S, option) ==
    IF ~Falsy(option.valuesType) /\ Len(option.values) = 0
    THEN IF HasCategory(S, option.valuesType)
         THEN << option.values \o CategoryKeys(S, option.valuesType) >>
         ELSE <<>>
    ELSE << option.values >>

\* lines 202-206: an existing slot refreshed from the option, chosenValues kept
RefreshSlot(slot, key, option, values) ==
    [slot EXCEPT !.category = option.category,
                 !.label    = IF option.label = Undefined THEN key ELSE option.label,
                 !.options  = values,
                 !.amount   = OrElse(option.amount, 1)]

\* lines 210-217: the slot pushed for an option that has none
NewSlot(key, option, values) ==
    [key          |-> key,
     label        |-> IF option.label = Undefined THEN key ELSE option.label,
     category     |-> option.category,
     options      |-> values,
     chosenValues |-> <<>>,
     amount       |-> OrElse(option.amount, 1)]

\* a mutation of the count: a slot with at most `amount` values counts
SlotMadeAtMost(slot, amount) == Len(slot.chosenValues) <= amount

\* line 207: the slot counts as a choice made
SlotMade(slot, amount) == Len(slot.chosenValues) = amount

\* lines 187-219: the loop over Object.entries(trait.builderInfo.options) from
\* entry i on; acc is [choices, choicesMade]
RECURSIVE EvalOptions(_, _, _, _)
EvalOptions(S, options, i, acc) ==
    IF i > Len(options) THEN acc
    ELSE LET option == options[i]
             key    == option.key
             amount == OrElse(option.amount, 1)
             vals   == OptionValues(S, option)
             at     == FindKey(acc.choices, key)
         IN  IF vals = <<>>
             THEN EvalOptions(S, options, i + 1, acc)
             ELSE IF at # 0
             THEN LET slot == RefreshSlot(acc.choices[at], key, option, vals[1])
                  IN  EvalOptions(S, options, i + 1,
                        [choices     |-> [acc.choices EXCEPT ![at] = slot],
                         choicesMade |-> IF SlotMade(slot, amount)
                                         THEN acc.choicesMade + 1
                                         ELSE acc.choicesMade])
             ELSE EvalOptions(S, options, i + 1,
                        [choices     |-> Append(acc.choices, NewSlot(key, option, vals[1])),
                         choicesMade |-> acc.choicesMade])

\* a mutation of the policy: CHOOSE_ONE satisfied by one choice or more
FulfilledAtLeastOne(mode, choicesMade, total, prior) ==
    CASE mode = "ALL"        -> choicesMade = total
      [] mode = "ANY"        -> choicesMade > 0
      [] mode = "CHOOSE_ONE" -> choicesMade >= 1
      [] OTHER               -> prior

\* lines 222-235: the switch on mode; no case matches any other mode and
\* trait.choicesFulfilled keeps its prior value
Fulfilled(mode, choicesMade, total, prior) ==
    CASE mode = "ALL"        -> choicesMade = total
      [] mode = "ANY"        -> choicesMade > 0
      [] mode = "CHOOSE_ONE" -> choicesMade = 1
      [] OTHER               -> prior

\* line 182: const mode = trait.builderInfo.mode || "all"
DefaultMode(mode) == IF Falsy(mode) THEN "all" ELSE mode

\* lines 176-235: the body of the loop for one TraitChoice
PrepareTraitChoice(S, trait) ==
    IF trait.builderInfo = <<>> \/ trait.builderInfo[1].options = <<>>
    THEN [trait EXCEPT !.choicesFulfilled = TRUE]
    ELSE LET info    == trait.builderInfo[1]
             options == info.options[1]
             mode    == DefaultMode(info.mode)
             r       == EvalOptions(S, options, 1,
                                    [choices |-> trait.choices, choicesMade |-> 0])
         IN  [trait EXCEPT
                !.builderInfo      = << [info EXCEPT !.mode = mode] >>,
                !.choices          = r.choices,
                !.choicesFulfilled = Fulfilled(mode, r.choicesMade, Len(options),
                                               trait.choicesFulfilled)]

\* lines 172-237: every TraitChoice of this.system.traitChoices, in order
PrepareCharacterBuilderData(S, traitChoices) ==
    [i \in DOMAIN traitChoices |-> PrepareTraitChoice(S, traitChoices[i])]

-----------------------------------------------------------------------------
(* Traits and TraitChoices *)

NoInnate ==
    [proficiencies |-> <<>>, resistances |-> <<>>, languages |-> <<>>,
     saveAdvantages |-> <<>>]

-----------------------------------------------------------------------------
(* The builder configurations the evaluation is checked on *)

OptLanguage ==
    [key |-> "language", amount |-> <<>>, category |-> "LANGUAGE_TYPES",
     values |-> <<>>, valuesType |-> "LANGUAGE_TYPES", label |-> Undefined]

OptSkills ==
    [key |-> "skill", amount |-> <<2>>, category |-> "PROFICIENCY_TYPES",
     values |-> <<"arcana", "stealth">>, valuesType |-> Undefined, label |-> "Skills"]

OptSkill ==
    [key |-> "skill", amount |-> <<1>>, category |-> "PROFICIENCY_TYPES",
     values |-> <<"arcana", "stealth">>, valuesType |-> Undefined, label |-> "Skills"]

OptTool ==
    [key |-> "tool", amount |-> <<1>>, category |-> "PROFICIENCY_TYPES",
     values |-> <<>>, valuesType |-> "TOOL_TYPES", label |-> Undefined]

\* an option whose valuesType names a property of CONFIG.SYSTEM that is no category
OptOrigin ==
    [key |-> "origin", amount |-> <<>>, category |-> "BACKGROUND_DOCUMENTS",
     values |-> <<>>, valuesType |-> "BACKGROUND_DOCUMENTS", label |-> Undefined]

\* an option whose valuesType names the function CONFIG.SYSTEM.log
OptLogger ==
    [key |-> "logger", amount |-> <<1>>, category |-> "log",
     values |-> <<>>, valuesType |-> "log", label |-> "Logger"]

\* builderInfo.options: absent (<<>>) or the entries in Object.entries order
BuilderOptions ==
    { <<>>,
      << <<>> >>,
      << <<OptLanguage>> >>,
      << <<OptTool>> >>,
      << <<OptOrigin>> >>,
      << <<OptLogger, OptSkill>> >>,
      << <<OptSkill, OptLanguage>> >>,
      << <<OptSkills, OptLanguage>> >>,
      << <<OptLanguage, OptTool>> >>,
      << <<OptTool, OptSkill>> >> }

\* the modes of the switch of lines 222-235
PolicyModes == {"ALL", "ANY", "CHOOSE_ONE"}

BuilderModes == {Undefined, "EACH"} \cup PolicyModes

\* trait.builderInfo: absent (<<>>) or a configuration
BuilderInfos ==
    { <<>> } \cup { << [mode |-> m, options |-> o] >> : m \in BuilderModes, o \in BuilderOptions }

BuilderTrait(info) ==
    [id |-> "t1", name |-> "Gift", color |-> <<>>, innate |-> NoInnate,
     builderInfo |-> info, source |-> "Elf", sourceId |-> "d1"]

-----------------------------------------------------------------------------
(* The parts of the state a specification does not use *)

AdvantagesIdle ==
    /\ aStored = <<>>
    /\ aSystem = <<>>
    /\ aPhase = "unused"

CatalogIdle ==
    /\ cItems = <<>>
    /\ cPacks = <<>>
    /\ cAbsent = {}
    /\ cLoad = <<>>
    /\ cResult = <<>>
    /\ cChanges = 0

BuilderIdle ==
    /\ bSystem = <<>>
    /\ bTrait = <<>>
    /\ bPrev = <<>>
    /\ bPhase = "unused"
    /\ bPending = 0
    /\ bEdits = 0

AbilitiesIdle ==
    /\ mRaw = <<>>
    /\ mAbilities = <<>>
    /\ mPhase = "unused"

DerivationIdle ==
    /\ dProvider = <<>>
    /\ dCache = <<>>
    /\ dStored = <<>>
    /\ dSystem = <<>>
    /\ dPass = <<>>
    /\ dPopulated = {}
    /\ dLoadDone = FALSE
    /\ dPasses = 0
    /\ dRefChanges = 0
    /\ dRejected = FALSE

-----------------------------------------------------------------------------
(* SpecBuilder: one TraitChoice through derivation passes (reconciled, then  *)
(* evaluated after the await of line 65), which may overlap, player         *)
(* selections and changes of the configuration, between passes and while a  *)
(* pass is suspended                                                        *)

\* a TraitChoice persisted by an earlier session: evaluated under the full
\* Rule Catalog, after which the player completed every slot by picking the
\* first `amount` of its options
PersistedComplete(info) ==
    LET t == PrepareTraitChoice(CatalogFull, NewTraitChoice(BuilderTrait(info)))
        PickFirst(slot) ==
            [slot EXCEPT !.chosenValues =
                SubSeq(slot.options, 1,
                       IF slot.amount < Len(slot.options)
                       THEN slot.amount ELSE Len(slot.options))]
    IN  [t EXCEPT !.choices = [i \in DOMAIN t.choices |-> PickFirst(t.choices[i])]]

BuilderInit ==
    /\ DerivationIdle
    /\ AbilitiesIdle
    /\ AdvantagesIdle
    /\ CatalogIdle
    /\ bSystem \in Catalogs
    /\ bTrait \in { NewTraitChoice(BuilderTrait(info)) : info \in BuilderInfos }
                  \cup { PersistedComplete(<< [mode |-> m,
                                                options |-> << <<OptLanguage, OptTool>> >>] >>) :
                            m \in PolicyModes }
    /\ bPrev = bTrait
    /\ bPhase = "fresh"
    /\ bEdits = 0
    /\ bPending = 0

\* lines 141-153 for a character whose one trait with an id stays active
ReconcileActive(traitChoice) ==
    LET traits == << BuilderTrait(traitChoice.builderInfo) >>
    IN  PruneTraitChoices(AddTraitChoices(<<traitChoice>>, traits, 1), traits)

\* a pass is suspended at the await of line 65
BuilderSuspended == bPending > 0

\* what an edit (a callback that runs between two steps) makes of the phase
AfterEdit == IF BuilderSuspended THEN "interrupted" ELSE "edited"

\* a derivation pass of a character whose trait stays active starts, whether or
\* not an earlier one is still suspended: the TraitChoices are reconciled
\* (lines 141-153) and the pass is suspended at the await of line 65
BuilderReconcile ==
    /\ bPending < MaxPending
    /\ bPending' = bPending + 1
    /\ bTrait' = ReconcileActive(bTrait)[1]
    /\ bPrev' = bTrait
    /\ bPhase' = IF bPhase \in {"evaluated", "repeated", "again"}
                 THEN "again" ELSE "reconciled"
    /\ UNCHANGED <<bSystem, bEdits, exceptBuilder>>

\* a suspended pass resumes and the TraitChoices are evaluated (line 66), on
\* the TraitChoice and the Rule Catalog as they are by then
BuilderPass ==
    /\ BuilderSuspended
    /\ bPending' = bPending - 1
    /\ bTrait' = PrepareCharacterBuilderData(bSystem, <<bTrait>>)[1]
    /\ bPrev' = bTrait
    /\ bPhase' = IF bPhase \in {"evaluated", "repeated", "again"}
                 THEN "repeated" ELSE "evaluated"
    /\ UNCHANGED <<bSystem, bEdits, exceptBuilder>>

\* the player picks at most `amount` of a slot's current options, between
\* passes or while one is suspended
PlayerSelect ==
    /\ bEdits < MaxEdits
    /\ \E i \in DOMAIN bTrait.choices :
         \E chosen \in SeqsNoDup(Range(bTrait.choices[i].options),
                                 bTrait.choices[i].amount) :
            /\ chosen # bTrait.choices[i].chosenValues
            /\ bTrait' = [bTrait EXCEPT !.choices[i].chosenValues = chosen]
    /\ bPhase' = AfterEdit
    /\ bEdits' = bEdits + 1
    /\ UNCHANGED <<bSystem, bPrev, bPending, exceptBuilder>>

\* the Rule Catalog is updated, between passes or while one is suspended
ChangeCatalog ==
    /\ bEdits < MaxEdits
    /\ bSystem' \in Catalogs \ {bSystem}
    /\ bPhase' = AfterEdit
    /\ bEdits' = bEdits + 1
    /\ UNCHANGED <<bTrait, bPrev, bPending, exceptBuilder>>

\* an edit of a builder configuration sets it, removes it, or changes its mode
\* or its options
OneEdit(old, new) ==
    IF old = <<>> \/ new = <<>> THEN TRUE
    ELSE old[1].mode = new[1].mode \/ old[1].options = new[1].options

\* the persisted builder configuration of the TraitChoice is edited, between
\* passes or while one is suspended
ChangeBuilderInfo ==
    /\ bEdits < MaxEdits
    /\ \E info \in BuilderInfos :
         /\ info # bTrait.builderInfo
         /\ OneEdit(bTrait.builderInfo, info)
         /\ bTrait' = [bTrait EXCEPT !.builderInfo = info]
    /\ bPhase' = AfterEdit
    /\ bEdits' = bEdits + 1
    /\ UNCHANGED <<bSystem, bPrev, bPending, exceptBuilder>>

BuilderNext ==
    \/ BuilderReconcile
    \/ BuilderPass
    \/ PlayerSelect
    \/ ChangeCatalog
    \/ ChangeBuilderInfo

SpecBuilder == BuilderInit /\ [][BuilderNext]_vars

-----------------------------------------------------------------------------
(* Properties of the fulfilment evaluation (SpecBuilder) *)

\* the TraitChoice has a builder options map with at least one entry
HasOptions(t) ==
    /\ t.builderInfo # <<>>
    /\ t.builderInfo[1].options # <<>>
    /\ Len(t.builderInfo[1].options[1]) > 0

\* the slot of option `option` has exactly `amount` chosen values
SlotComplete(t, option) ==
    LET at == FindKey(t.choices, option.key)
    IN  at # 0 /\ Cardinality(Range(t.choices[at].chosenValues)) = t.choices[at].amount

\* the number of configured options whose slot is complete
MadeCountAll(t) ==
    Cardinality({i \in DOMAIN t.builderInfo[1].options[1] :
                    SlotComplete(t, t.builderInfo[1].options[1][i])})

\* the same, over the options whose candidate values resolve
MadeCountResolved(S, t) ==
    Cardinality({i \in DOMAIN t.builderInfo[1].options[1] :
                    /\ OptionValues(S, t.builderInfo[1].options[1][i]) # <<>>
                    /\ SlotComplete(t, t.builderInfo[1].options[1][i])})

\* the fulfilment policy of the three modes
Policy(mode, made, total) ==
    \/ mode = "ALL" /\ made = total
    \/ mode = "ANY" /\ made > 0
    \/ mode = "CHOOSE_ONE" /\ made = 1

\* C2 as stated: after a pass, a TraitChoice with a non-empty options map and a
\* mode of ALL, ANY or CHOOSE_ONE is fulfilled exactly when the policy of its mode
\* holds of the number of configured options whose slot has |chosenValues| = amount
C2_PolicyOverAllOptions ==
    (bPhase = "evaluated" /\ HasOptions(bTrait)
        /\ bTrait.builderInfo[1].mode \in PolicyModes)
    => (bTrait.choicesFulfilled <=>
            Policy(bTrait.builderInfo[1].mode, MadeCountAll(bTrait),
                   Len(bTrait.builderInfo[1].options[1])))

\* the number of configured options that the pass skips at line 196
SkippedCount(S, t) ==
    Cardinality({i \in DOMAIN t.builderInfo[1].options[1] :
                    OptionValues(S, t.builderInfo[1].options[1][i]) = <<>>})

\* the TraitChoice has two configured options, each of amount 1
TwoOptionsOfOne(t) ==
    /\ Len(t.builderInfo[1].options[1]) = 2
    /\ \A i \in 1..2 : OrElse(t.builderInfo[1].options[1][i].amount, 1) = 1

\* C2 amended: the same, the made-count taken over the configured options that
\* the pass does not skip (an option without values for whose valuesType
\* CONFIG.SYSTEM holds nothing is skipped and never counts, whatever its slot
\* holds). In particular ALL with two options of amount 1 is fulfilled exactly
\* when both slots hold one chosen value if no option is skipped, and is not
\* fulfilled if one is
C2_PolicyOverResolvedOptions ==
    (bPhase = "evaluated" /\ HasOptions(bTrait)
        /\ bTrait.builderInfo[1].mode \in PolicyModes)
    => /\ bTrait.choicesFulfilled <=>
            Policy(bTrait.builderInfo[1].mode, MadeCountResolved(bSystem, bTrait),
                   Len(bTrait.builderInfo[1].options[1]))
       /\ (bTrait.builderInfo[1].mode = "ALL" /\ TwoOptionsOfOne(bTrait))
            => IF SkippedCount(bSystem, bTrait) = 0
               THEN bTrait.choicesFulfilled <=>
                       \A i \in 1..2 :
                          LET at == FindKey(bTrait.choices,
                                            bTrait.builderInfo[1].options[1][i].key)
                          IN  at # 0 /\ Len(bTrait.choices[at].chosenValues) = 1
               ELSE ~bTrait.choicesFulfilled

\* C2 witness: a pass has evaluated an ALL TraitChoice with two options of
\* amount 1 whose slots both hold one chosen value, skipped one of the options
\* (its category left the Rule Catalog) and left the TraitChoice unfulfilled
C2_Witness ==
    /\ bPhase = "evaluated"
    /\ HasOptions(bTrait)
    /\ bTrait.builderInfo[1].mode = "ALL"
    /\ TwoOptionsOfOne(bTrait)
    /\ MadeCountAll(bTrait) = 2
    /\ SkippedCount(bSystem, bTrait) = 1
    /\ ~bTrait.choicesFulfilled

\* C3 as stated: a TraitChoice with builder options and no mode is evaluated
\* under ALL: after the pass its mode is "ALL" and it is fulfilled exactly when
\* every configured option's slot has |chosenValues| = amount
C3_DefaultModeIsAll ==
    (bPhase = "evaluated" /\ bPrev.builderInfo # <<>>
        /\ bPrev.builderInfo[1].options # <<>> /\ Falsy(bPrev.builderInfo[1].mode))
    => /\ bTrait.builderInfo[1].mode = "ALL"
       /\ bTrait.choicesFulfilled <=>
            (MadeCountAll(bTrait) = Len(bTrait.builderInfo[1].options[1]))

-----------------------------------------------------------------------------
(* prepareAdvantages, actor.mjs lines 241-362 *)

\* the four advantage sets and the Rule Catalog category each is looked up in
\* (lines 252-255, 289-303, 327-341)
AdvantageFields == <<"proficiencies", "resistances", "languages", "saveAdvantages">>

TypesOf ==
    [proficiencies  |-> "PROFICIENCY_TYPES",
     resistances    |-> "DAMAGE_TYPES",
     languages      |-> "LANGUAGE_TYPES",
     saveAdvantages |-> "SAVE_TYPES"]

\* types[key], lines 249, 274, 310: the entry of a category under a key; a
\* category is a plain object, so under a name of Object.prototype it answers
\* the inherited member, which is truthy and whose .label is undefined; <<>>
\* when the property is undefined
Lookup(types, key) ==
    LET at == FindKey(types, key)
    IN  IF at # 0 THEN << types[at] >>
        ELSE IF key \in ObjectPrototypeNames THEN << [key |-> key, label |-> Undefined] >>
        ELSE <<>>

(* A member of an advantage set is <<>> for undefined or <<x>> for an object x: *)
(* a manual entry as the character stores it, {value: key}, or an Advantage    *)
(* that prepareAdvantages built.                                               *)

\* a stored manual entry {value: key}
Manual(key) == << [value |-> key] >>

\* line 249: value.value as a property name of `types`, <<>> when it names no
\* key: the key of a stored manual entry, the key an innate or chosen Advantage
\* carries as its value; the value of a manual Advantage is the object it
\* wraps, whose property name "[object Object]" is no key
ManualKey(value) ==
    IF "sourceType" \in DOMAIN value /\ value.sourceType = "manual"
    THEN <<>>
    ELSE << value.value >>

\* lines 244-251: mapManualData throws a TypeError at line 249 when the member
\* is undefined (value.value) or types[value.value] is (its .label)
ManualThrows(types, member) ==
    \/ member = <<>>
    \/ ManualKey(member[1]) = <<>>
    \/ Lookup(types, ManualKey(member[1])[1]) = <<>>

\* lines 244-251: mapManualData(types, value) when it returns
MapManualData(types, value) ==
    [source     |-> <<"Manual">>,
     sourceType |-> "manual",
     sourceId   |-> Undefined,
     value      |-> value,
     label      |-> Lookup(types, ManualKey(value)[1])[1].label,
     style      |-> <<>>]

\* line 264: trait.color.match(/\w\w/g).map(c => parseInt(c, 16)) on "#RRGGBB",
\* the colour given by its six hexadecimal digits
ParseColor(color) ==
    << 16 * color[1] + color[2], 16 * color[3] + color[4], 16 * color[5] + color[6] >>

\* a mutation of the brightness: the quotient truncated instead of rounded
BrightnessTruncated(rgb) == ((rgb[1] * 299) + (rgb[2] * 587) + (rgb[3] * 114)) \div 1000

\* line 265: Math.round(((r * 299) + (g * 587) + (b * 114)) / 1000)
Brightness(rgb) == ((rgb[1] * 299) + (rgb[2] * 587) + (rgb[3] * 114) + 500) \div 1000

\* lines 257-270: buildStyleString; the style string as its two declarations,
\* the empty string as no declaration
BuildStyleString(trait) ==
    IF trait.color # <<>>
    THEN << [background |-> trait.color,
             color      |-> IF Brightness(ParseColor(trait.color)) > 125
                            THEN "black" ELSE "white"] >>
    ELSE <<>>

\* lines 280, 316: the template string `${trait.source} (${trait.name})`; a
\* display string is the tuple of its parts ("Manual" is <<"Manual">>)
SourceString(trait) == <<trait.source, trait.name>>

\* lines 273-287: mapInnate; undefined (<<>>) when types[innate] is falsy
MapInnate(trait, types, innate) ==
    LET config == Lookup(types, innate)
    IN  IF config = <<>> THEN <<>>
        ELSE << [source     |-> SourceString(trait),
                 sourceType |-> "innate",
                 sourceId   |-> trait.sourceId,
                 value      |-> innate,
                 label      |-> config[1].label,
                 style      |-> <<BuildStyleString(trait)>>] >>

\* Set.prototype.add: every object built by the pass is a new object, so it is
\* always a new member; the value undefined is a member at most once
SetAdd(set, x) ==
    IF x = <<>> /\ \E i \in DOMAIN set : set[i] = <<>>
    THEN set
    ELSE Append(set, x)

\* array.forEach(x => set.add(x))
RECURSIVE AddAll(_, _, _)
AddAll(set, list, i) ==
    IF i > Len(list) THEN set
    ELSE AddAll(SetAdd(set, list[i]), list, i + 1)

\* lines 288-304 for one field: the innate entries of every trait, in order
RECURSIVE AddInnate(_, _, _, _, _)
AddInnate(set, traits, field, types, i) ==
    IF i > Len(traits) THEN set
    ELSE LET trait  == traits[i]
             mapped == [k \in DOMAIN trait.innate[field] |->
                            MapInnate(trait, types, trait.innate[field][k])]
         IN  AddInnate(AddAll(set, mapped, 1), traits, field, types, i + 1)

\* lines 307-325: reduceTraitChoice from chosen value k on
RECURSIVE ReduceChosen(_, _, _, _, _, _)
ReduceChosen(S, trait, category, choice, advantages, k) ==
    IF k > Len(choice.chosenValues) THEN advantages
    ELSE LET value  == choice.chosenValues[k]
             config == Lookup(S[category], value)
         IN  IF config = <<>>
             THEN ReduceChosen(S, trait, category, choice, advantages, k + 1)
             ELSE ReduceChosen(S, trait, category, choice,
                    Append(advantages,
                       << [source     |-> SourceString(trait),
                           sourceType |-> "choice",
                           sourceId   |-> trait.sourceId,
                           value      |-> value,
                           label      |-> config[1].label,
                           style      |-> <<BuildStyleString(trait)>>] >>),
                    k + 1)

ReduceTraitChoice(S, trait, category, choice, advantages) ==
    IF choice.category # category THEN advantages
    ELSE ReduceChosen(S, trait, category, choice, advantages, 1)

\* trait.choices.reduce((advantages, p) => reduceTraitChoice(...), []) from slot i on
RECURSIVE ReduceChoices(_, _, _, _, _)
ReduceChoices(S, trait, category, advantages, i) ==
    IF i > Len(trait.choices) THEN advantages
    ELSE ReduceChoices(S, trait, category,
            ReduceTraitChoice(S, trait, category, trait.choices[i], advantages), i + 1)

\* lines 326-342 for one field: the chosen entries of every TraitChoice, in order
RECURSIVE AddChoices(_, _, _, _, _)
AddChoices(S, set, traitChoices, category, i) ==
    IF i > Len(traitChoices) THEN set
    ELSE AddChoices(S,
            AddAll(set, ReduceChoices(S, traitChoices[i], category, <<>>, 1), 1),
            traitChoices, category, i + 1)

\* the elements Array.prototype.sort calls the comparator on: the ones that are
\* not undefined, in array order
Compared(set) == SelectSeq(set, LAMBDA e : e # <<>>)

\* lines 347, 351, 355, 359: the comparator a.label.localeCompare(b.label)
\* throws a TypeError when a.label is undefined. Array.prototype.sort (V8: one
\* run, extended and then completed by binary insertion) passes every compared
\* element but the first as `a` at least once, and the first only as `b`
SortThrows(set) ==
    \E i \in 2..Len(Compared(set)) : Compared(set)[i][1].label = Undefined

\* lines 345-360: new Set(Array.from(set).sort((a, b) => a.label.localeCompare(b.label)))
\* when the comparator returns. Array.prototype.sort puts the elements that are
\* undefined last, without calling the comparator on them; localeCompare turns
\* an argument that is undefined into the string "undefined"
AdvantageRank(e) ==
    IF e = <<>> THEN Cardinality(DOMAIN Collation) + 1 ELSE Collation[e[1].label]

SortByLabel(set) ==
    LET order == StableOrder([i \in DOMAIN set |-> AdvantageRank(set[i])])
    IN  [k \in DOMAIN set |-> set[order[k]]]

\* lines 252-255 for one field: set.map(p => mapManualData(types, p))
ManualMapped(S, system, field) ==
    [i \in DOMAIN system[field] |->
        << MapManualData(S[TypesOf[field]], system[field][i][1]) >>]

\* lines 252-342: one of the four advantage sets when the sorts begin
AdvantagesUnsorted(S, system, field) ==
    LET types  == S[TypesOf[field]]
        manual == ManualMapped(S, system, field)
        innate == AddInnate(manual, system.traits, field, types, 1)
    IN  AddChoices(S, innate, system.traitChoices, TypesOf[field], 1)

\* one of the four advantage sets after the pass
AdvantagesOf(S, system, field) == SortByLabel(AdvantagesUnsorted(S, system, field))

\* line 249 throws on a member of the field: a stored manual key under which
\* the category answers undefined, a manual Advantage of an earlier run, or undefined
FieldThrows(S, system, field) ==
    \E i \in DOMAIN system[field] : ManualThrows(S[TypesOf[field]], system[field][i])

\* the pass throws in lines 252-255
MapThrows(S, system) ==
    \E k \in DOMAIN AdvantageFields : FieldThrows(S, system, AdvantageFields[k])

\* the sort of the field (lines 345-360) throws
FieldSortThrows(S, system, field) == SortThrows(AdvantagesUnsorted(S, system, field))

\* the pass throws, at line 249 or in a comparator of lines 345-360
AdvantagesThrow(S, system) ==
    IF MapThrows(S, system) THEN TRUE
    ELSE \E k \in DOMAIN AdvantageFields : FieldSortThrows(S, system, AdvantageFields[k])

\* the derived view when the pass throws. At line 249: the fields assigned
\* before the statement that throws hold their mapped manual entries, the
\* others are untouched. In a sort: every set holds its manual, innate and
\* chosen members, the fields assigned before the sort that throws are sorted
AdvantagesAtThrow(S, system) ==
    LET Reached(k) == \A j \in 1..k : ~FieldThrows(S, system, AdvantageFields[j])
        Sorted(k)  == \A j \in 1..k : ~FieldSortThrows(S, system, AdvantageFields[j])
        After(k)   == IF MapThrows(S, system)
                      THEN IF Reached(k) THEN ManualMapped(S, system, AdvantageFields[k])
                           ELSE system[AdvantageFields[k]]
                      ELSE IF Sorted(k) THEN AdvantagesOf(S, system, AdvantageFields[k])
                           ELSE AdvantagesUnsorted(S, system, AdvantageFields[k])
    IN  [system EXCEPT !.proficiencies  = After(1),
                       !.resistances    = After(2),
                       !.languages      = After(3),
                       !.saveAdvantages = After(4)]

\* lines 241-362: the character's derived view after prepareAdvantages
PrepareAdvantages(S, system) ==
    [system EXCEPT !.proficiencies  = AdvantagesOf(S, system, "proficiencies"),
                   !.resistances    = AdvantagesOf(S, system, "resistances"),
                   !.languages      = AdvantagesOf(S, system, "languages"),
                   !.saveAdvantages = AdvantagesOf(S, system, "saveAdvantages")]

-----------------------------------------------------------------------------
(* SpecAdvantages: prepareAdvantages on bounded characters *)

Dark  == <<2, 0, 2, 0, 2, 0>>     \* "#202020"
Light == <<15, 15, 15, 15, 15, 15>> \* "#FFFFFF"

AdvTrait(id, name, color, proficiencies, resistances, languages, saveAdvantages) ==
    [id |-> id, name |-> name, color |-> color,
     innate |-> [proficiencies |-> proficiencies, resistances |-> resistances,
                 languages |-> languages, saveAdvantages |-> saveAdvantages],
     builderInfo |-> <<>>, source |-> "Elf", sourceId |-> "d1"]

\* the traits a character of SpecAdvantages may carry; "mystery", "orcish" and
\* "valueOf" are keys the Rule Catalog lacks, the last a name of Object.prototype
AdvTraits ==
    { AdvTrait("t1", "Gift", Dark, <<"arcana">>, <<>>, <<>>, <<>>),
      AdvTrait("t3", "Knack", Dark, <<"valueOf">>, <<>>, <<>>, <<"valueOf">>),
      AdvTrait("t1", "Gift", Dark, <<"arcana", "arcana">>, <<"fire">>, <<>>, <<>>),
      AdvTrait(Undefined, "Lore", <<>>, <<"mystery">>, <<>>, <<"elvish">>, <<>>),
      AdvTrait("t2", "Lore", Light, <<"stealth", "mystery", "arcana">>, <<>>,
               <<"orcish", "common">>, <<"poison">>) }

AdvSlot(key, category, chosenValues) ==
    [key |-> key, label |-> key, category |-> category,
     options |-> <<"arcana", "stealth">>, chosenValues |-> chosenValues, amount |-> 2]

AdvTraitChoice(choices) ==
    [choices |-> choices, choicesFulfilled |-> FALSE]
        @@ AdvTrait("t1", "Gift", Dark, <<>>, <<>>, <<>>, <<>>)

\* the persisted TraitChoices of a character of SpecAdvantages
AdvTraitChoices ==
    { <<>>,
      << AdvTraitChoice(<< AdvSlot("skill", "PROFICIENCY_TYPES", <<"arcana">>) >>) >>,
      << AdvTraitChoice(<< AdvSlot("skill", "PROFICIENCY_TYPES", <<"stealth", "mystery">>),
                           AdvSlot("language", "LANGUAGE_TYPES", <<"common">>) >>) >>,
      << AdvTraitChoice(<< AdvSlot("skill", "PROFICIENCY_TYPES", <<"arcana">>),
                           AdvSlot("bonus", "PROFICIENCY_TYPES", <<"arcana">>) >>) >>,
      << AdvTraitChoice(<< AdvSlot("skill", "PROFICIENCY_TYPES", <<"toString">>) >>) >> }

\* the manual entries stored on the character; "lockpick", "orcish" and
\* "toString" are not catalog keys, the last a name of Object.prototype
AdvManualProficiencies ==
    { <<>>, << Manual("stealth") >>, << Manual("stealth"), Manual("arcana") >>,
      << Manual("lockpick") >>, << Manual("toString") >> }

AdvManualLanguages == { <<>>, << Manual("elvish") >>, << Manual("orcish") >> }

AdvantagesInit ==
    /\ DerivationIdle
    /\ AbilitiesIdle
    /\ BuilderIdle
    /\ CatalogIdle
    /\ aPhase = "stored"
    /\ \E n \in 0..MaxTraits :
         aStored \in [proficiencies  : AdvManualProficiencies,
                      resistances    : { <<>> },
                      languages      : AdvManualLanguages,
                      saveAdvantages : { <<>> },
                      traits         : [1..n -> AdvTraits],
                      traitChoices   : AdvTraitChoices]
    /\ aSystem = aStored

\* the pass reaches prepareAdvantages (line 67) and it returns
Aggregate ==
    /\ aPhase = "stored"
    /\ ~AdvantagesThrow(CatalogFull, aSystem)
    /\ aSystem' = PrepareAdvantages(CatalogFull, aSystem)
    /\ aPhase' = "derived"
    /\ UNCHANGED <<aStored, exceptAdvantages>>

\* the pass reaches prepareAdvantages and line 249 throws a TypeError
AggregateThrows ==
    /\ aPhase = "stored"
    /\ MapThrows(CatalogFull, aSystem)
    /\ aSystem' = AdvantagesAtThrow(CatalogFull, aSystem)
    /\ aPhase' = "threw"
    /\ UNCHANGED <<aStored, exceptAdvantages>>

\* the pass reaches the sorts of lines 345-360 and a comparator throws a TypeError
AggregateSortThrows ==
    /\ aPhase = "stored"
    /\ ~MapThrows(CatalogFull, aSystem)
    /\ AdvantagesThrow(CatalogFull, aSystem)
    /\ aSystem' = AdvantagesAtThrow(CatalogFull, aSystem)
    /\ aPhase' = "threw"
    /\ UNCHANGED <<aStored, exceptAdvantages>>

AdvantagesNext ==
    \/ Aggregate
    \/ AggregateThrows
    \/ AggregateSortThrows

SpecAdvantages == AdvantagesInit /\ [][AdvantagesNext]_vars

-----------------------------------------------------------------------------
(* Properties of the advantage aggregation (SpecAdvantages) *)

\* the four advantage sets of the derived view
DerivedSets == { aSystem[AdvantageFields[k]] : k \in DOMAIN AdvantageFields }

\* two members are the same Advantage: same source, sourceType, value and label
SameAdvantage(a, b) ==
    /\ a # <<>> /\ b # <<>>
    /\ a[1].sourceType = b[1].sourceType
    /\ a[1].source = b[1].source
    /\ a[1].value = b[1].value
    /\ a[1].label = b[1].label

\* the members that are Advantages are iterated in non-decreasing label order
SortedByLabel(set) ==
    \A i, j \in DOMAIN set :
        (i < j /\ set[i] # <<>> /\ set[j] # <<>>)
            => LocaleCompare(set[i][1].label, set[j][1].label) <= 0

\* an innate key of an active trait, or a chosen value, is not in its category
HasUnknownKey(system) ==
    \E k \in DOMAIN AdvantageFields :
        LET f     == AdvantageFields[k]
            types == CatalogFull[TypesOf[f]]
        IN  \/ \E t \in DOMAIN system.traits :
                 \E x \in Range(system.traits[t].innate[f]) : FindKey(types, x) = 0
            \/ \E t \in DOMAIN system.traitChoices :
                 \E c \in DOMAIN system.traitChoices[t].choices :
                    /\ system.traitChoices[t].choices[c].category = TypesOf[f]
                    /\ \E x \in Range(system.traitChoices[t].choices[c].chosenValues) :
                          FindKey(types, x) = 0

\* every known innate key of every active trait has its entry in the set
KnownInnatePresent(system) ==
    \A k \in DOMAIN AdvantageFields :
        LET f     == AdvantageFields[k]
            types == CatalogFull[TypesOf[f]]
        IN  \A t \in DOMAIN system.traits :
              \A x \in Range(system.traits[t].innate[f]) :
                 FindKey(types, x) # 0 =>
                    \E i \in DOMAIN system[f] :
                        /\ system[f][i] # <<>>
                        /\ system[f][i][1].sourceType = "innate"
                        /\ system[f][i][1].value = x
                        /\ system[f][i][1].source = SourceString(system.traits[t])

\* C7: when an innate list or a slot's chosenValues holds a key the Rule Catalog
\* lacks, prepareAdvantages completes without an error, every member of the four
\* sets is a well-formed Advantage (none stands for the unknown key), and the
\* entries of the known keys are present and sorted by label
C7_UnknownKeysSkipped ==
    (aPhase \in {"derived", "threw"} /\ HasUnknownKey(aStored)
        /\ ~MapThrows(CatalogFull, aStored))
    => /\ aPhase = "derived"
       /\ \A set \in DerivedSets : \A i \in DOMAIN set : set[i] # <<>>
       /\ KnownInnatePresent(aSystem)
       /\ \A set \in DerivedSets : SortedByLabel(set)

\* C8: after prepareAdvantages no advantage set holds two structurally identical
\* entries, and each is iterated in non-decreasing label order
C8_NoDuplicatesSorted ==
    aPhase = "derived"
    => \A set \in DerivedSets :
          /\ \A i, j \in DOMAIN set : i # j => ~SameAdvantage(set[i], set[j])
          /\ SortedByLabel(set)

-----------------------------------------------------------------------------
(* SpecCatalog: getForeignDocuments on bounded local collections and packages, *)
(* step by step between its awaits, in a world that may change meanwhile      *)

Doc(id, name, type, origin) ==
    [id |-> id, name |-> name, type |-> type, origin |-> origin,
     color |-> <<>>, traits |-> <<>>]

\* the documents the local collection may hold
CatLocalPool ==
    { Doc(id, name, type, "world") :
        id \in {"a", "b"}, name \in {"Acolyte", "Sage"}, type \in {"background", "lineage"} }

\* the local collections: at most MaxLocal documents, ids distinct
CatLocals ==
    { items \in UNION { [1..n -> CatLocalPool] : n \in 0..MaxLocal } :
        \A i, j \in DOMAIN items : i # j => items[i].id # items[j].id }

\* a package of Items; its document "a" is the one a world may hold a copy of
PackSrd ==
    [name |-> "srd", type |-> "Item",
     documents |-> << Doc("a", "Acolyte", "background", "srd"),
                      Doc("c", "Dwarf", "lineage", "srd"),
                      Doc("d", "Elf", "background", "srd") >>]

\* a duplicate of the package in which document "d" was renamed
PackHomebrew ==
    [name |-> "homebrew", type |-> "Item",
     documents |-> << Doc("d", "Sage", "background", "homebrew") >>]

\* a package of another document type
PackActors ==
    [name |-> "actors", type |-> "Actor",
     documents |-> << Doc("e", "Wizard", "background", "actors") >>]

CatPacks ==
    { <<>>, <<PackSrd>>, <<PackHomebrew>>, <<PackSrd, PackHomebrew>>,
      <<PackActors, PackSrd>> }

CatAbsents == { {}, {[pack |-> 1, id |-> "a"]} }

CatSubtypes == {"background", "lineage"}

CatalogInit ==
    /\ DerivationIdle
    /\ AbilitiesIdle
    /\ AdvantagesIdle
    /\ BuilderIdle
    /\ cItems \in CatLocals
    /\ cPacks \in CatPacks
    /\ cAbsent \in CatAbsents
    /\ cLoad = <<>>
    /\ cResult = <<>>
    /\ cChanges = 0

\* lines 33-48 from package p on, with the documents gathered so far: the call
\* is suspended at the getDocument of the next index entry (line 37), or the
\* loop ends and the collection is built and returned
ContinueCatalog(subtype, docs, p) ==
    LET next == NextPack(cPacks, "Item", subtype, p)
    IN  IF next = <<>>
        THEN /\ cLoad' = <<>>
             /\ cResult' = << [subtype |-> subtype, collection |-> BuildCollection(docs)] >>
        ELSE /\ cLoad' = << [subtype |-> subtype, docs |-> docs,
                              pack |-> next[1].pack, ids |-> next[1].ids] >>
             /\ cResult' = cResult

\* getForeignDocuments("Item", subtype) is called: line 30 reads the local
\* documents, and the call runs up to its first await or, with no package
\* entry to fetch, to its return
BeginCatalog ==
    /\ cLoad = <<>>
    /\ cResult = <<>>
    /\ \E subtype \in CatSubtypes :
         ContinueCatalog(subtype, LocalDocuments(cItems, subtype), 1)
    /\ UNCHANGED <<cItems, cPacks, cAbsent, cChanges, exceptCatalog>>

\* the getDocument awaited at line 37 resolves: line 38 keeps the document when
\* there is one, and the call runs on to the next await or to its return
BuildCatalog ==
    /\ cLoad # <<>>
    /\ LET load  == cLoad[1]
           fetch == [pack |-> load.pack, id |-> load.ids[1]]
           docs  == IF fetch \in cAbsent THEN load.docs
                    ELSE Append(load.docs, PackDocument(cPacks, fetch))
       IN  IF Len(load.ids) > 1
           THEN /\ cLoad' = << [load EXCEPT !.docs = docs, !.ids = Tail(load.ids)] >>
                /\ cResult' = cResult
           ELSE ContinueCatalog(load.subtype, docs, load.pack + 1)
    /\ UNCHANGED <<cItems, cPacks, cAbsent, cChanges, exceptCatalog>>

\* a callback creates an Item in the world, before the call or while it is suspended
CreateWorldItem ==
    /\ cResult = <<>>
    /\ cChanges < MaxWorldChanges
    /\ \E d \in CatLocalPool :
         /\ \A i \in DOMAIN cItems : cItems[i].id # d.id
         /\ cItems' = Append(cItems, d)
    /\ cChanges' = cChanges + 1
    /\ UNCHANGED <<cPacks, cAbsent, cLoad, cResult, exceptCatalog>>

\* a callback adds a package to game.packs, before the call or while it is suspended
AddPackage ==
    /\ cResult = <<>>
    /\ cChanges < MaxWorldChanges
    /\ \E pack \in {PackSrd, PackHomebrew} :
         /\ \A i \in DOMAIN cPacks : cPacks[i].name # pack.name
         /\ cPacks' = Append(cPacks, pack)
    /\ cChanges' = cChanges + 1
    /\ UNCHANGED <<cItems, cAbsent, cLoad, cResult, exceptCatalog>>

CatalogNext ==
    \/ BeginCatalog
    \/ BuildCatalog
    \/ CreateWorldItem
    \/ AddPackage

SpecCatalog == CatalogInit /\ [][CatalogNext]_vars

-----------------------------------------------------------------------------
(* Properties of the catalog build (SpecCatalog) *)

\* the documents of the subtype found locally or in a package of type Item
FoundDocuments(subtype) ==
    LocalDocuments(cItems, subtype) \o FetchedDocuments(cPacks, "Item", subtype, cAbsent)

\* C9: in a world that does not change meanwhile, the collection built for a
\* subtype holds exactly the documents of that subtype found locally or in a
\* package of matching type, each once (a document found in both places, the
\* same id, counts once), in ascending name order
C9_CollectionExactSorted ==
    (cResult # <<>> /\ cChanges = 0)
    => LET collection == cResult[1].collection
           found      == FoundDocuments(cResult[1].subtype)
       IN  /\ {collection[i].id : i \in DOMAIN collection} = {found[i].id : i \in DOMAIN found}
           /\ \A i \in DOMAIN collection : collection[i] \in Range(found)
           /\ \A i, j \in DOMAIN collection : i # j => collection[i].id # collection[j].id
           /\ \A i, j \in DOMAIN collection :
                 i < j => LocaleCompare(collection[i].name, collection[j].name) <= 0

-----------------------------------------------------------------------------
(* Spec: the derivation passes of several characters over the catalog cache *)
(* they share. A pass is suspended at every await of the code; while it is, *)
(* the other passes run, of other characters and of the same character,     *)
(* which all work on the one this.system of their character.                *)

\* most derivation passes started in one behaviour
MaxPasses == 2

\* most changes of a stored reference in one behaviour
MaxRefChanges == 1

Actors == {"a1", "a2"}

DocWith(doc, color, traits) == [doc EXCEPT !.color = color, !.traits = traits]

\* a trait with a builder configuration
TraitGift ==
    [id |-> "t1", name |-> "Gift", color |-> <<>>,
     innate |-> [NoInnate EXCEPT !.proficiencies = <<"arcana">>],
     builderInfo |-> << [mode |-> "ANY", options |-> << <<OptSkill>> >>] >>]

\* a trait without an id
TraitLore ==
    [id |-> Undefined, name |-> "Lore", color |-> <<>>,
     innate |-> [NoInnate EXCEPT !.languages = <<"elvish">>],
     builderInfo |-> <<>>]

TraitKin ==
    [id |-> "t2", name |-> "Kin", color |-> <<>>,
     innate |-> [NoInnate EXCEPT !.resistances = <<"fire">>],
     builderInfo |-> <<>>]

TraitOath ==
    [id |-> "t3", name |-> "Oath", color |-> <<>>,
     innate |-> [NoInnate EXCEPT !.saveAdvantages = <<"poison">>],
     builderInfo |-> <<>>]

\* a world with documents of four subtypes; the heritage carries a trait with
\* the id of a trait of the background
WorldFull ==
    [items  |-> << DocWith(Doc("bg1", "Acolyte", "background", "world"), Dark,
                           <<TraitGift, TraitLore>>),
                   DocWith(Doc("he1", "Elf", "heritage", "world"),
                           <<>>, <<TraitGift>>),
                   Doc("cl1", "Wizard", "class", "world") >>,
     packs  |-> << PackActors,
                   [name |-> "srd", type |-> "Item",
                    documents |-> << DocWith(Doc("li1", "Dwarf", "lineage", "srd"),
                                             Light, <<TraitKin>>),
                                     DocWith(Doc("bg2", "Sage", "background", "srd"),
                                             <<>>, <<TraitLore, TraitOath>>) >>] >>,
     absent |-> {}]

\* a world without any background document; the heritage listed by the index
\* of its package is not found by getDocument
WorldNoBackground ==
    [items  |-> << Doc("li0", "Elf", "lineage", "world"),
                   Doc("cl1", "Wizard", "class", "world") >>,
     packs  |-> << [name |-> "srd", type |-> "Item",
                    documents |-> << DocWith(Doc("li1", "Dwarf", "lineage", "srd"),
                                             Light, <<TraitKin>>),
                                     Doc("he1", "Elf", "heritage", "srd") >>] >>,
     absent |-> {[pack |-> 1, id |-> "he1"]}]

Worlds == {WorldFull, WorldNoBackground}

\* the values an update may store in a reference a document's traits come from
RefIds ==
    [background |-> {Undefined, "bg1", "bg2"},
     heritage   |-> {Undefined, "he1"}]

RefFields == DOMAIN RefIds

StoredCharacter(background, heritage, lineage, class, proficiencies) ==
    [background |-> background, heritage |-> heritage, lineage |-> lineage,
     class |-> class,
     abilities |-> [str |-> 7, dex |-> 15],
     proficiencies |-> proficiencies, resistances |-> <<>>,
     languages |-> <<>>, saveAdvantages |-> <<>>]

\* the stored records the characters start with; "gone" is the id of no document
StoredCharacters ==
    [a1 |-> StoredCharacter("bg1", "he1", "li1", "cl1", << Manual("stealth") >>),
     a2 |-> StoredCharacter("bg1", Undefined, "li1", "gone", <<>>)]

\* a TraitChoice persisted for a trait of a document the character no longer
\* refers to
StaleChoice ==
    NewTraitChoice(TraitOf(Doc("bg0", "Sage", "background", "world"),
                           [TraitKin EXCEPT !.id = "t9"]))

\* the TraitChoices persisted on the characters before the first pass
PersistedChoices == [a1 |-> <<StaleChoice>>, a2 |-> <<>>]

\* this.system before the first pass: the stored fields and the persisted
\* TraitChoices, nothing derived yet
BaseView(character, traitChoices) ==
    [abilities |-> character.abilities,
     backgroundId |-> Undefined, background |-> <<>>,
     heritageId |-> Undefined, heritage |-> <<>>,
     lineageId |-> Undefined, lineage |-> <<>>,
     classId |-> Undefined, class |-> <<>>,
     traits |-> <<>>, traitChoices |-> traitChoices,
     proficiencies |-> character.proficiencies, resistances |-> character.resistances,
     languages |-> character.languages, saveAdvantages |-> character.saveAdvantages]

\* this.system as a pass finds it: the stored ability scores and manual entries
\* are read again from the source, the TraitChoices are those of the last pass
InitializeSystem(character, view) ==
    [view EXCEPT !.abilities = character.abilities,
                 !.proficiencies = character.proficiencies,
                 !.resistances = character.resistances,
                 !.languages = character.languages,
                 !.saveAdvantages = character.saveAdvantages]

TraitChoiceIds(traitChoices) == { traitChoices[i].id : i \in DOMAIN traitChoices }

\* the locals of a pass of character a that has not run a step yet
NoPass(a) ==
    [actor |-> a, pc |-> "new", sub |-> 0, docs |-> <<>>, queue |-> <<>>,
     warm |-> FALSE, fetches |-> 0, installs |-> 0, had |-> {}]

\* the positions of the passes
Passes == DOMAIN dPass

Init ==
    /\ AdvantagesIdle
    /\ BuilderIdle
    /\ CatalogIdle
    /\ AbilitiesIdle
    /\ dProvider \in Worlds
    /\ dCache = [s \in Range(Subtypes) |-> <<>>]
    /\ dStored = StoredCharacters
    /\ dSystem = [a \in Actors |-> BaseView(dStored[a], PersistedChoices[a])]
    /\ dPass = <<>>
    /\ dPopulated = {}
    /\ dLoadDone = FALSE
    /\ dPasses = 0
    /\ dRefChanges = 0
    /\ dRejected = FALSE

\* lines 29-37: getForeignDocuments(type, Subtypes[k]) runs to its first
\* getDocument call, or to its return when no package lists an entry
BeginCollection(p, k) ==
    LET queue == FetchQueue(dProvider.packs, "Item", Subtypes[k])
    IN  [p EXCEPT !.sub     = k,
                  !.docs    = LocalDocuments(dProvider.items, Subtypes[k]),
                  !.queue   = queue,
                  !.fetches = IF queue = <<>> THEN @ ELSE @ + 1,
                  !.pc      = IF queue = <<>> THEN "built" ELSE "fetching"]

\* the locals of a pass that ran lines 102-153 on the view it found and is
\* suspended at line 65
ResolvedPass(p, view) ==
    [p EXCEPT !.pc = "resolved", !.sub = 0, !.docs = <<>>, !.queue = <<>>,
              !.had = TraitChoiceIds(view.traitChoices)]

\* lines 60-65 and 97-100: _preparePcDerivedData is called on the character
\* whose stored record is `character`; the pass runs to its first await, which
\* is a getDocument call or the return of a collection when the cached
\* backgrounds are empty, and the return of prepareForeignDocumentData otherwise
BeginPass(a, character) ==
    /\ dPasses < MaxPasses
    /\ dPasses' = dPasses + 1
    /\ LET view == [InitializeSystem(character, dSystem[a]) EXCEPT
                        !.abilities = PrepareAbilityScoreMods(character.abilities)]
           p    == [NoPass(a) EXCEPT !.warm = dLoadDone]
       IN  IF Len(dCache.background) = 0
           THEN /\ dSystem' = [dSystem EXCEPT ![a] = view]
                /\ dPass' = Append(dPass, BeginCollection(p, 1))
           ELSE /\ dSystem' = [dSystem EXCEPT ![a] =
                                  ResolveReferences(dCache, character, view)]
                /\ dPass' = Append(dPass, ResolvedPass(p, view))

\* the character is prepared again, whether or not an earlier pass of the
\* character is still suspended
StartPass(a) ==
    /\ BeginPass(a, dStored[a])
    /\ UNCHANGED <<dProvider, dCache, dStored, dPopulated, dLoadDone, dRefChanges,
                   dRejected, exceptDerivation>>

\* lines 36-38: the getDocument call returns; the document, if there is one, is
\* pushed, and the loop goes on to the next call or to the return
FetchReturns(i) ==
    /\ i \in Passes
    /\ dPass[i].pc = "fetching"
    /\ LET p     == dPass[i]
           fetch == Head(p.queue)
           docs  == IF fetch \in dProvider.absent THEN p.docs
                    ELSE Append(p.docs, PackDocument(dProvider.packs, fetch))
           rest  == Tail(p.queue)
       IN  dPass' = [dPass EXCEPT ![i] =
                        [p EXCEPT !.docs    = docs,
                                  !.queue   = rest,
                                  !.fetches = IF rest = <<>> THEN @ ELSE @ + 1,
                                  !.pc      = IF rest = <<>> THEN "built" ELSE "fetching"]]
    /\ UNCHANGED <<dProvider, dCache, dStored, dSystem, dPopulated, dLoadDone, dPasses,
                   dRefChanges, dRejected, exceptDerivation>>

\* line 37: the getDocument call rejects (one call at most in a behaviour);
\* nothing catches the rejection, which ends getForeignDocuments,
\* loadForeignDocuments, prepareForeignDocumentData and _preparePcDerivedData
FetchRejects(i) ==
    /\ i \in Passes
    /\ dPass[i].pc = "fetching"
    /\ ~dRejected
    /\ dRejected' = TRUE
    /\ dPass' = [dPass EXCEPT ![i] = [@ EXCEPT !.pc = "aborted", !.sub = 0,
                                               !.docs = <<>>, !.queue = <<>>]]
    /\ UNCHANGED <<dProvider, dCache, dStored, dSystem, dPopulated, dLoadDone, dPasses,
                   dRefChanges, exceptDerivation>>

\* lines 42-48 and 51-55: the collection is assigned to its CONFIG.SYSTEM
\* field; the load goes on to the next subtype or returns
AssignCollection(i) ==
    /\ i \in Passes
    /\ dPass[i].pc = "built"
    /\ LET p == [dPass[i] EXCEPT !.installs = @ + 1]
           k == p.sub
       IN  /\ dCache' = [dCache EXCEPT ![Subtypes[k]] = BuildCollection(p.docs)]
           /\ dPopulated' = dPopulated \cup {Subtypes[k]}
           /\ IF k < Len(Subtypes)
              THEN /\ dPass' = [dPass EXCEPT ![i] = BeginCollection(p, k + 1)]
                   /\ dLoadDone' = dLoadDone
              ELSE /\ dPass' = [dPass EXCEPT ![i] = [p EXCEPT !.pc = "loaded", !.sub = 0,
                                                              !.docs = <<>>]]
                   /\ dLoadDone' = TRUE
    /\ UNCHANGED <<dProvider, dStored, dSystem, dPasses, dRefChanges, dRejected,
                   exceptDerivation>>

\* lines 99-153: the await of loadForeignDocuments resumes
ResolveAfterLoad(i) ==
    /\ i \in Passes
    /\ dPass[i].pc = "loaded"
    /\ LET a == dPass[i].actor
       IN  /\ dSystem' = [dSystem EXCEPT ![a] =
                                  ResolveReferences(dCache, dStored[a], dSystem[a])]
           /\ dPass' = [dPass EXCEPT ![i] = ResolvedPass(dPass[i], dSystem[a])]
    /\ UNCHANGED <<dProvider, dCache, dStored, dPopulated, dLoadDone, dPasses,
                   dRefChanges, dRejected, exceptDerivation>>

\* lines 66-67: the await of prepareForeignDocumentData resumes, on this.system
\* as it is by then (another pass of the character may have derived its
\* advantage sets already)
FinishPass(i) ==
    /\ i \in Passes
    /\ dPass[i].pc = "resolved"
    /\ LET a    == dPass[i].actor
           view == [dSystem[a] EXCEPT !.traitChoices =
                        PrepareCharacterBuilderData(CatalogFull, @)]
       IN  IF AdvantagesThrow(CatalogFull, view)
           THEN /\ dSystem' = [dSystem EXCEPT ![a] = AdvantagesAtThrow(CatalogFull, view)]
                /\ dPass' = [dPass EXCEPT ![i] = [@ EXCEPT !.pc = "threw"]]
           ELSE /\ dSystem' = [dSystem EXCEPT ![a] = PrepareAdvantages(CatalogFull, view)]
                /\ dPass' = [dPass EXCEPT ![i] = [@ EXCEPT !.pc = "done"]]
    /\ UNCHANGED <<dProvider, dCache, dStored, dPopulated, dLoadDone, dPasses,
                   dRefChanges, dRejected, exceptDerivation>>

\* an update of the character stores another reference and the character is
\* prepared again, whether or not an earlier pass of the character is still
\* suspended
ChangeReference(a) ==
    /\ dRefChanges < MaxRefChanges
    /\ dRefChanges' = dRefChanges + 1
    /\ \E field \in RefFields : \E id \in RefIds[field] \ {dStored[a][field]} :
         dStored' = [dStored EXCEPT ![a] = [@ EXCEPT ![field] = id]]
    /\ BeginPass(a, dStored'[a])
    /\ UNCHANGED <<dProvider, dCache, dPopulated, dLoadDone, dRejected,
                   exceptDerivation>>

Next ==
    \/ \E a \in Actors :
          \/ StartPass(a)
          \/ ChangeReference(a)
    \/ \E i \in 1..MaxPasses :
          \/ FetchReturns(i)
          \/ FetchRejects(i)
          \/ AssignCollection(i)
          \/ ResolveAfterLoad(i)
          \/ FinishPass(i)

Spec == Init /\ [][Next]_vars

-----------------------------------------------------------------------------
(* Properties of the derivation passes (Spec) *)

\* the ids of the traits that carry one
IdBearing(traits) ==
    { traits[i].id : i \in { j \in DOMAIN traits : ~Falsy(traits[j].id) } }

\* the passes of a character
PassesOf(a) == { i \in Passes : dPass[i].actor = a }

\* a pass of the character has run lines 102-153
Reconciled(a) == \E i \in PassesOf(a) : dPass[i].pc \in {"resolved", "done"}

\* C1: after every derivation pass the ids of the character's TraitChoices are
\* exactly the ids of its current traits that carry an id, whatever references
\* were changed and whatever TraitChoices were persisted before
C1_TraitChoicesMatchTraits ==
    \A a \in Actors :
        Reconciled(a) =>
            TraitChoiceIds(dSystem[a].traitChoices) = IdBearing(dSystem[a].traits)

\* C1 witness: a pass that ran after a reference was changed has removed the
\* TraitChoice of the source left behind and created one for a trait of the new
\* source, next to a trait without an id
C1_Witness ==
    \E p \in Passes :
        LET a == dPass[p].actor
        IN  /\ dPass[p].pc = "resolved"
            /\ dRefChanges > 0
            /\ dPass[p].had \ TraitChoiceIds(dSystem[a].traitChoices) # {}
            /\ TraitChoiceIds(dSystem[a].traitChoices) \ dPass[p].had # {}
            /\ \E i \in DOMAIN dSystem[a].traits : Falsy(dSystem[a].traits[i].id)

\* a pass of the character is inside loadForeignDocuments
Loading(a) == \E i \in PassesOf(a) : dPass[i].pc \in {"fetching", "built"}

\* C4: of the passes of different characters that start while the cache is
\* empty at most one runs the catalog load: the loads of two characters are
\* never in progress together
C4_SingleFlightLoad == Cardinality({ a \in Actors : Loading(a) }) <= 1

\* C5: a pass resolves the references only when a load has assigned a
\* collection to every one of the five subtypes
C5_CatalogReadyBeforeUse ==
    \A i \in Passes :
        dPass[i].pc = "resolved" => dPopulated = Range(Subtypes)

\* C6: a pass started after a catalog load has completed calls getDocument
\* zero times and assigns none of the five cached collections
C6_WarmCacheNoFetch ==
    \A i \in Passes :
        dPass[i].warm => dPass[i].fetches = 0 /\ dPass[i].installs = 0

\* C10: a rejected getDocument call does not end the catalog load: no pass is
\* aborted by it
C10_FailedFetchSkipped ==
    \A i \in Passes : dPass[i].pc # "aborted"

\* the four references of a character and the field of the derived view that
\* exposes the raw id of each
RawIdField ==
    [background |-> "backgroundId", heritage |-> "heritageId",
     lineage |-> "lineageId", class |-> "classId"]

\* the ids of the documents of a subtype the provider holds
ProviderIds(subtype) ==
    { d.id : d \in { e \in Range(dProvider.items) : e.type = subtype } }
        \cup UNION { { d.id : d \in { e \in Range(dProvider.packs[p].documents) :
                                        e.type = subtype } } :
                     p \in DOMAIN dProvider.packs }

\* the innate and choice Advantages of the four advantage sets
DerivedAdvantages(view) ==
    UNION { { view[f][i][1] : i \in { j \in DOMAIN view[f] :
                                        /\ view[f][j] # <<>>
                                        /\ "sourceType" \in DOMAIN view[f][j][1]
                                        /\ view[f][j][1].sourceType # "manual" } } :
            f \in Range(AdvantageFields) }

\* nothing in the derived view names a document of the subtype as its source
NothingFrom(view, subtype) ==
    /\ \A i \in DOMAIN view.traits : view.traits[i].sourceId \notin ProviderIds(subtype)
    /\ \A i \in DOMAIN view.traitChoices :
          view.traitChoices[i].sourceId \notin ProviderIds(subtype)
    /\ \A e \in DerivedAdvantages(view) : e.sourceId \notin ProviderIds(subtype)

\* the reference of the character is missing: no id is stored, or the id is the
\* id of no document of the subtype
MissingReference(a, slot) == dSystem[a][RawIdField[slot]] \notin ProviderIds(slot)

\* the part of C11 about the documents and the traits: a pass resolves a
\* missing reference to undefined and then has no trait from a document of
\* that subtype
MissingReferenceNoTraits ==
    \A a \in Actors :
        Reconciled(a) =>
            \A slot \in DOMAIN RawIdField :
               MissingReference(a, slot) =>
                  /\ dSystem[a][slot] = <<>>
                  /\ \A i \in DOMAIN dSystem[a].traits :
                        dSystem[a].traits[i].sourceId \notin ProviderIds(slot)

\* C11: a missing background, heritage, lineage or class reference is a valid
\* empty state: under the raw id the pass exposes the document is undefined,
\* and neither the traits nor the TraitChoices nor the innate and choice
\* advantages hold anything from a document of that subtype
C11_MissingReferenceEmpty ==
    /\ MissingReferenceNoTraits
    /\ \A a \in Actors :
          Reconciled(a) =>
             \A slot \in DOMAIN RawIdField :
                MissingReference(a, slot) => NothingFrom(dSystem[a], slot)

-----------------------------------------------------------------------------
(* SpecAbilities: prepareAbilityScoreMods on the raw scores of a character *)

\* the highest raw ability score
MaxScore == 30

AbilityKeys == {"str", "dex"}

AbilitiesInit ==
    /\ AdvantagesIdle
    /\ BuilderIdle
    /\ CatalogIdle
    /\ DerivationIdle
    /\ mRaw \in [AbilityKeys -> 1..MaxScore]
    /\ mAbilities = mRaw
    /\ mPhase = "raw"

\* line 63: the pass calls prepareAbilityScoreMods on the raw scores
PrepareAbilities ==
    /\ mPhase = "raw"
    /\ mAbilities' = PrepareAbilityScoreMods(mAbilities)
    /\ mPhase' = "prepared"
    /\ UNCHANGED <<mRaw, exceptAbilities>>

AbilitiesNext == PrepareAbilities

SpecAbilities == AbilitiesInit /\ [][AbilitiesNext]_vars

\* prepareAbilityScoreMods has run
AbilitiesPrepared == mPhase = "prepared"

\* C12: every ability becomes a pair whose value is the raw score v and whose
\* modifier m is floor((v - 10) / 2), the integer with 2m <= v - 10 < 2m + 2;
\* 1 gives -5, 10 and 11 give 0, 12 gives 1 and 20 gives 5
C12_ModifierIsFloor ==
    AbilitiesPrepared =>
        /\ DOMAIN mAbilities = DOMAIN mRaw
        /\ \A k \in DOMAIN mRaw :
              /\ mAbilities[k].value = mRaw[k]
              /\ 2 * mAbilities[k].mod <= mRaw[k] - 10
              /\ mRaw[k] - 10 < 2 * mAbilities[k].mod + 2
              /\ mRaw[k] = 1 => mAbilities[k].mod = 0 - 5
              /\ mRaw[k] \in {10, 11} => mAbilities[k].mod = 0
              /\ mRaw[k] = 12 => mAbilities[k].mod = 1
              /\ mRaw[k] = 20 => mAbilities[k].mod = 5

\* C12 witness: the modifiers of an odd score below 10 and of a score above 10
\* were computed
C12_Witness ==
    /\ AbilitiesPrepared
    /\ mRaw.str = 1
    /\ mAbilities.str.mod = 0 - 5
    /\ mRaw.dex = 20
    /\ mAbilities.dex.mod = 5

-----------------------------------------------------------------------------
(* SpecStyle: prepareAdvantages on a character whose trait and TraitChoice *)
(* carry a colour "#RRGGBB"                                                 *)

\* the two hexadecimal digits of a colour channel
HexDigits(channel) == << channel \div 16, channel % 16 >>

HexColor(r, g, b) == HexDigits(r) \o HexDigits(g) \o HexDigits(b)

\* the values a colour channel takes
Channels == {0, 125, 126, 128, 255}

Colors == { HexColor(r, g, b) : r \in Channels, g \in Channels, b \in Channels }

\* a character with a manual proficiency, a trait with an innate proficiency
\* and a TraitChoice with a chosen language, both of one colour
StyleCharacter(color, manual, innate) ==
    [proficiencies  |-> << Manual(manual) >>,
     resistances    |-> <<>>,
     languages      |-> <<>>,
     saveAdvantages |-> <<>>,
     traits         |-> << AdvTrait("t1", "Gift", color, <<innate>>, <<>>, <<>>, <<>>) >>,
     traitChoices   |->
        << [choices |-> << AdvSlot("language", "LANGUAGE_TYPES", <<"common">>) >>,
            choicesFulfilled |-> FALSE]
              @@ AdvTrait("t1", "Gift", color, <<>>, <<>>, <<>>, <<>>) >>]

StyleInit ==
    /\ BuilderIdle
    /\ CatalogIdle
    /\ DerivationIdle
    /\ AbilitiesIdle
    /\ aPhase = "stored"
    /\ aStored \in { StyleCharacter(color, manual, innate) :
                        color \in Colors, manual \in {"stealth", "lockpick"},
                        innate \in {"arcana", "valueOf"} }
    /\ aSystem = aStored

SpecStyle == StyleInit /\ [][AdvantagesNext]_vars

\* the colour of the character's trait and the weighted sum of its channels
StyleColor == aStored.traits[1].color

StyleLuma ==
    LET c == StyleColor
    IN  (16 * c[1] + c[2]) * 299 + (16 * c[3] + c[4]) * 587 + (16 * c[5] + c[6]) * 114

\* the defined entries of the four advantage sets of the derived view
StyleEntries ==
    UNION { { aSystem[f][i][1] : i \in { j \in DOMAIN aSystem[f] : aSystem[f][j] # <<>> } } :
            f \in Range(AdvantageFields) }

\* C13: the style of an innate or choice advantage has the trait's colour as
\* background and foreground black iff round((299 R + 587 G + 114 B) / 1000)
\* exceeds 125, that is iff the sum is at least 125500, and white otherwise;
\* a manual entry carries no style
C13_ForegroundByBrightness ==
    aPhase = "derived" =>
        \A e \in StyleEntries :
            IF e.sourceType = "manual"
            THEN e.style = <<>>
            ELSE e.style = << << [background |-> StyleColor,
                                  color      |-> IF StyleLuma >= 125500
                                                 THEN "black" ELSE "white"] >> >>

\* C13 witness: the pass has styled an innate and a choice advantage of a colour
\* whose brightness is rounded up to 126, next to a manual entry
C13_Witness ==
    /\ aPhase = "derived"
    /\ StyleLuma >= 125500
    /\ StyleLuma < 126000
    /\ \E e \in StyleEntries : e.sourceType = "innate" /\ e.style[1][1].color = "black"
    /\ \E e \in StyleEntries : e.sourceType = "choice" /\ e.style[1][1].color = "black"
    /\ \E e \in StyleEntries : e.sourceType = "manual"

-----------------------------------------------------------------------------
(* Properties of the ChoiceSlots across evaluation passes (SpecBuilder) *)

\* C14: after every evaluation pass, whatever selections and changes of the
\* builder configuration or Rule Catalog came before it, every ChoiceSlot has
\* chosenValues within its options and at most `amount` of them
C14_SlotWithinOptionsAndAmount ==
    bPhase = "evaluated" =>
        \A i \in DOMAIN bTrait.choices :
            /\ Range(bTrait.choices[i].chosenValues) \subseteq Range(bTrait.choices[i].options)
            /\ Len(bTrait.choices[i].chosenValues) <= bTrait.choices[i].amount

\* the configured option of the TraitChoice under a key, <<>> when there is none
ConfiguredOption(t, key) ==
    IF ~HasOptions(t) THEN <<>>
    ELSE LET options == t.builderInfo[1].options[1]
             at      == FindKey(options, key)
         IN  IF at = 0 THEN <<>> ELSE << options[at] >>

\* the slot holds what the option configures: label, category, amount, and as
\* options the candidate values
SlotRefreshed(slot, option, values) ==
    /\ slot.label = (IF option.label = Undefined THEN option.key ELSE option.label)
    /\ slot.category = option.category
    /\ slot.amount = OrElse(option.amount, 1)
    /\ slot.options = values

\* the candidate values of an option: its explicit values, or the keys of the
\* Rule Catalog category its valuesType names, or none
CandidateValues(S, option) ==
    IF OptionValues(S, option) = <<>> THEN option.values ELSE OptionValues(S, option)[1]

\* the slots the TraitChoice had before the pass are where they were, with the
\* same key and the same chosenValues
SelectionsKept ==
    /\ Len(bTrait.choices) >= Len(bPrev.choices)
    /\ \A i \in DOMAIN bPrev.choices :
          /\ bTrait.choices[i].key = bPrev.choices[i].key
          /\ bTrait.choices[i].chosenValues = bPrev.choices[i].chosenValues

\* a slot the pass created is empty, for a configured key that had no slot
SlotsCreatedForNewKeys ==
    \A i \in (DOMAIN bTrait.choices) \ (DOMAIN bPrev.choices) :
        /\ bTrait.choices[i].chosenValues = <<>>
        /\ ConfiguredOption(bTrait, bTrait.choices[i].key) # <<>>
        /\ FindKey(bPrev.choices, bTrait.choices[i].key) = 0

\* C15 as stated: after a pass every slot that existed keeps its chosenValues,
\* every slot whose key is a configured option has label, category, options and
\* amount of the current configuration, and a slot is created, empty, only for
\* a configured key without one; the TraitChoice of the active trait is kept
C15_SelectionsPreservedAllRefreshed ==
    bPhase = "evaluated" =>
        /\ SelectionsKept
        /\ SlotsCreatedForNewKeys
        /\ \A i \in DOMAIN bPrev.choices :
              LET option == ConfiguredOption(bTrait, bPrev.choices[i].key)
              IN  option # <<>> =>
                     SlotRefreshed(bTrait.choices[i], option[1],
                                   CandidateValues(bSystem, option[1]))

\* C15 as the pass keeps it: the same, with the refresh for the configured
\* options that the pass does not skip (an option without values for whose
\* valuesType CONFIG.SYSTEM holds nothing is skipped, and its slot is left as
\* it was; one whose valuesType names a property that is no category gets the
\* options []); reconciliation leaves the TraitChoice of the active trait as it is
C15_SelectionsPreservedResolvedRefreshed ==
    /\ bPhase \in {"reconciled", "again"} => bTrait = bPrev
    /\ bPhase = "evaluated" =>
        /\ SelectionsKept
        /\ SlotsCreatedForNewKeys
        /\ \A i \in DOMAIN bPrev.choices :
              LET option == ConfiguredOption(bTrait, bPrev.choices[i].key)
              IN  option # <<>> =>
                     IF OptionValues(bSystem, option[1]) # <<>>
                     THEN SlotRefreshed(bTrait.choices[i], option[1],
                                        OptionValues(bSystem, option[1])[1])
                     ELSE bTrait.choices[i] = bPrev.choices[i]

\* C15 witness: a pass has refreshed a slot that held a selection, from a
\* configuration that changed its amount, and created a slot for another key
C15_Witness ==
    /\ bPhase = "evaluated"
    /\ \E i \in DOMAIN bPrev.choices :
          /\ bPrev.choices[i].chosenValues # <<>>
          /\ bTrait.choices[i].chosenValues = bPrev.choices[i].chosenValues
          /\ bTrait.choices[i].amount # bPrev.choices[i].amount
    /\ Len(bTrait.choices) > Len(bPrev.choices)

\* C16: a TraitChoice whose builderInfo.options is absent or has no entry is
\* fulfilled after the pass, whatever its mode and its prior choicesFulfilled
C16_NoOptionsFulfilled ==
    (bPhase = "evaluated" /\ ~HasOptions(bPrev)) => bTrait.choicesFulfilled

\* C17: a pass that runs right after a pass, with no edit in between, leaves
\* the TraitChoice as the first pass left it (same slots, same chosenValues,
\* same choicesFulfilled), and reconciliation neither adds nor removes a
\* TraitChoice; every configured amount is at least 1
C17_PassIdempotent ==
    bPhase = "repeated" =>
        /\ bTrait = bPrev
        /\ ReconcileActive(bTrait) = <<bTrait>>

\* C17 witness: a pass was repeated on a TraitChoice with configured options
\* and a selection
C17_Witness ==
    /\ bPhase = "repeated"
    /\ HasOptions(bTrait)
    /\ \E i \in DOMAIN bTrait.choices : bTrait.choices[i].chosenValues # <<>>
    /\ Len(bTrait.choices) > 1

\* the choice-tier advantages prepareAdvantages derives from the TraitChoice
\* for a category of the Rule Catalog
ChoiceTier(category) == AddChoices(bSystem, <<>>, <<bTrait>>, category, 1)

\* C18: after a pass every ChoiceSlot of the TraitChoice has the key of a
\* currently configured option, also when an option key was removed or its
\* category changed, so that every choice-tier advantage of a category is a
\* chosen value of a slot the current configuration defines for that category
C18_NoStaleSlot ==
    bPhase \in {"evaluated", "repeated"} =>
        /\ \A i \in DOMAIN bTrait.choices :
              ConfiguredOption(bTrait, bTrait.choices[i].key) # <<>>
        /\ \A f \in Range(AdvantageFields) :
              \A k \in DOMAIN ChoiceTier(TypesOf[f]) :
                 \E i \in DOMAIN bTrait.choices :
                    LET option == ConfiguredOption(bTrait, bTrait.choices[i].key)
                    IN  /\ option # <<>>
                        /\ option[1].category = TypesOf[f]
                        /\ ChoiceTier(TypesOf[f])[k][1].value
                              \in Range(bTrait.choices[i].chosenValues)

-----------------------------------------------------------------------------
(* Properties of the TraitChoices across derivation passes (Spec) *)

\* the number of traits of the document a reference of the character resolved to
TraitCount(a, slot) ==
    IF dSystem[a][slot] = <<>> THEN 0 ELSE Len(dSystem[a][slot][1].traits)

\* C19: no two TraitChoices of a character share an id, whatever passes and
\* reference changes came before, also when two source documents carry a trait
\* with the same id; the trait set keeps every trait of the background, the
\* heritage and the lineage as an entry of its own
C19_TraitChoiceIdsUnique ==
    \A a \in Actors :
        /\ \A i, j \in DOMAIN dSystem[a].traitChoices :
              i # j => dSystem[a].traitChoices[i].id # dSystem[a].traitChoices[j].id
        /\ Reconciled(a) =>
              Len(dSystem[a].traits) = TraitCount(a, "background")
                                          + TraitCount(a, "heritage")
                                          + TraitCount(a, "lineage")

\* C19 witness: after a reference change a pass resolved a background and a
\* heritage that both carry a trait with id t1; the trait set has both traits
\* and there is one TraitChoice with that id
C19_Witness ==
    \E a \in Actors :
        /\ Reconciled(a)
        /\ dRefChanges > 0
        /\ dSystem[a].background # <<>>
        /\ dSystem[a].heritage # <<>>
        /\ Cardinality({ i \in DOMAIN dSystem[a].traits :
                            dSystem[a].traits[i].id = "t1" }) = 2
        /\ Cardinality({ i \in DOMAIN dSystem[a].traitChoices :
                            dSystem[a].traitChoices[i].id = "t1" }) = 1

=============================================================================
